---- MODULE Spec2Model ----
(***************************************************************************)
(* Model of SpeedExtractor.py (Blender add-on "Speed Extractor").          *)
(*                                                                         *)
(* State: the named text block, the scene's current frame, the SpeedText   *)
(* overlay object, the frame_change_post handler list, the active          *)
(* material's node tree, the geometry-nodes group, and the outcome of the  *)
(* most recent operator execution.  One action per operator, plus the      *)
(* host's frame change, which dispatches the registered handlers.          *)
(*                                                                         *)
(* Text is modelled as a sequence of one-character strings, so that        *)
(* formatting (f-strings) and parsing (strip / split / int / float) are    *)
(* computed, not assumed.                                                  *)
(***************************************************************************)
EXTENDS Integers, Sequences, FiniteSets, TLC

VARIABLES texts, frame_current, SpeedText, frame_change_post,
          material, node_group, call

vars == <<texts, frame_current, SpeedText, frame_change_post,
          material, node_group, call>>

(***************************************************************************)
(* Bounds of the model.                                                    *)
(***************************************************************************)
MaxFrame == 3        \* frames of the timeline are 0..MaxFrame
MaxInterval == 2     \* props.interval ranges over 1..MaxInterval
MaxWindow == 3       \* props.averaging_window ranges over 1..MaxWindow
MaxFps == 2          \* scene.render.fps ranges over 1..MaxFps
MaxNodes == 2        \* the graph writers create at most MaxNodes value nodes
SmallFrame == 2      \* timeline 0..SmallFrame in SpecOverlay and SpecGraph
TinyFrame == 1       \* timeline 0..TinyFrame in Spec

(***************************************************************************)
(* Program constants.                                                      *)
(***************************************************************************)
SpeedScale == 100            \* "* 100  # Scale speed"
DefaultInterval == 1         \* stride when use_interval is off
DefaultWindow == 5           \* averaging_window default
DefaultSpeed == 0            \* speed_data.get(current_frame, 0)

\* text_block_name not in bpy.data.texts
NoText == [present |-> FALSE, content |-> <<>>]
\* "SpeedText" not in bpy.data.objects
NoObject == [present |-> FALSE, body |-> <<>>, keyed |-> {}]
\* animation_data is None
NoAnimationData == [present |-> FALSE, has_action |-> FALSE, name |-> "", fcurves |-> <<>>]

(***************************************************************************)
(* Generic helpers.                                                        *)
(***************************************************************************)
Max(a, b) == IF a >= b THEN a ELSE b
Min(a, b) == IF a <= b THEN a ELSE b

\* Mutant of Range: the end frame itself is left out (range(start, end)).
RangeExclusive(lo, hi, step) ==
  LET n == IF hi - 1 > lo THEN ((hi - lo - 2) \div step) + 1 ELSE 0
  IN  [i \in 1..n |-> lo + (i - 1) * step]

\* Python's range(lo, hi, step) for step >= 1, as a sequence.
Range(lo, hi, step) ==
  LET n == IF hi > lo THEN ((hi - lo - 1) \div step) + 1 ELSE 0
  IN  [i \in 1..n |-> lo + (i - 1) * step]

RECURSIVE SumSeq(_)
SumSeq(s) == IF s = <<>> THEN 0 ELSE Head(s) + SumSeq(Tail(s))

\* Python's round(num / den) for den > 0: nearest integer, ties to even.
RoundDiv(num, den) ==
  LET q == num \div den
      r == num % den
  IN  IF 2 * r < den THEN q
      ELSE IF 2 * r > den THEN q + 1
      ELSE IF q % 2 = 0 THEN q ELSE q + 1

\* The largest k of lo..hi with k * k * m <= n (lo is one), by bisection.
RECURSIVE FloorSqrt(_, _, _, _)
FloorSqrt(n, m, lo, hi) ==
  IF lo >= hi THEN lo
  ELSE LET mid == (lo + hi + 1) \div 2
       IN  IF mid * mid * m <= n THEN FloorSqrt(n, m, mid, hi)
           ELSE FloorSqrt(n, m, lo, mid - 1)

\* round(sqrt(n / m)) for 0 <= n <= bound * bound * m, m > 0: nearest integer,
\* ties to even.
RoundSqrt(n, m, bound) ==
  LET s == FloorSqrt(n, m, 0, bound)
      h == (2 * s + 1) * (2 * s + 1) * m
  IN  IF 4 * n < h THEN s
      ELSE IF 4 * n > h THEN s + 1
      ELSE IF s % 2 = 0 THEN s ELSE s + 1

Abs(x) == IF x < 0 THEN -x ELSE x

(***************************************************************************)
(* Text: formatting.                                                       *)
(***************************************************************************)
DigitChars == <<"0", "1", "2", "3", "4", "5", "6", "7", "8", "9">>
Comma == ","
Newline == "\n"
Minus == "-"

RECURSIVE NatStr(_)
NatStr(n) ==
  IF n < 10 THEN <<DigitChars[n + 1]>>
  ELSE NatStr(n \div 10) \o <<DigitChars[(n % 10) + 1]>>

\* f"{n}" for an int n.
IntStr(n) == IF n < 0 THEN <<Minus>> \o NatStr(-n) ELSE NatStr(n)

\* f"{frame_start},{frame_end},{speed}\n"
FormatLine(rec) ==
  IntStr(rec[1]) \o <<Comma>> \o IntStr(rec[2]) \o <<Comma>> \o IntStr(rec[3])
    \o <<Newline>>

RECURSIVE WriteAll(_)
WriteAll(recs) ==
  IF recs = <<>> THEN <<>> ELSE FormatLine(Head(recs)) \o WriteAll(Tail(recs))

(***************************************************************************)
(* Speed Sampler: OBJECT_OT_GetSpeed.execute.                              *)
(***************************************************************************)
\* round((sqrt(dx**2 + dy**2) / (interval / fps)) * 100)
Speed(prev, loc, interval, fps) ==
  LET dx == loc[1] - prev[1]
      dy == loc[2] - prev[2]
  IN  RoundSqrt((dx * dx + dy * dy) * (SpeedScale * fps) * (SpeedScale * fps),
                interval * interval,
                SpeedScale * fps * (Abs(dx) + Abs(dy)))

\* Mutant of Measure: the record starts one frame, not one interval, back.
MeasureUnitStep(frames, location, interval, fps) ==
  [i \in 1..(IF Len(frames) = 0 THEN 0 ELSE Len(frames) - 1) |->
     <<frames[i + 1] - 1, frames[i + 1],
       Speed(location[frames[i]], location[frames[i + 1]], interval, fps)>>]

\* The loop of lines 83-97 over the sampled frames: one record per frame but
\* the first.
Measure(frames, location, interval, fps) ==
  [i \in 1..(IF Len(frames) = 0 THEN 0 ELSE Len(frames) - 1) |->
     <<frames[i + 1] - interval, frames[i + 1],
       Speed(location[frames[i]], location[frames[i + 1]], interval, fps)>>]

WindowStart(i, window) == Max(0, i - (window \div 2))
WindowEnd(i, window, n) == Min(n, i + (window \div 2) + 1)

\* Lines 100-107; i is the zero-based index of the code.
Averaged(speed_data, window) ==
  [k \in 1..Len(speed_data) |->
     LET i == k - 1
         ws == WindowStart(i, window)
         we == WindowEnd(i, window, Len(speed_data))
         w == SubSeq(speed_data, ws + 1, we)
     IN  <<speed_data[k][1], speed_data[k][2],
           RoundDiv(SumSeq([j \in 1..Len(w) |-> w[j][3]]), Len(w))>>]

(***************************************************************************)
(* Text: parsing (str.strip, str.split, int, float).                       *)
(***************************************************************************)
Whitespace == {" ", Newline, "\t"}

RECURSIVE LStrip(_)
LStrip(s) ==
  IF s # <<>> /\ Head(s) \in Whitespace THEN LStrip(Tail(s)) ELSE s

RECURSIVE RStrip(_)
RStrip(s) ==
  IF s # <<>> /\ s[Len(s)] \in Whitespace
  THEN RStrip(SubSeq(s, 1, Len(s) - 1)) ELSE s

\* s.strip()
Strip(s) == RStrip(LStrip(s))

RECURSIVE SplitRec(_, _, _, _)
SplitRec(s, sep, cur, acc) ==
  IF s = <<>> THEN Append(acc, cur)
  ELSE IF Head(s) = sep THEN SplitRec(Tail(s), sep, <<>>, Append(acc, cur))
  ELSE SplitRec(Tail(s), sep, Append(cur, Head(s)), acc)

\* s.split(sep): never empty; "".split(sep) is [""].
Split(s, sep) == SplitRec(s, sep, <<>>, <<>>)

IsDigit(c) == \E d \in 1..10 : DigitChars[d] = c
DigitVal(c) == (CHOOSE d \in 1..10 : DigitChars[d] = c) - 1

RECURSIVE NatVal(_)
NatVal(s) ==
  IF s = <<>> THEN 0
  ELSE 10 * NatVal(SubSeq(s, 1, Len(s) - 1)) + DigitVal(s[Len(s)])

\* Whether int(s) / float(s) succeeds.  Over the characters text blocks hold
\* here (digits, "-", "," and newline) both accept exactly an optional sign
\* followed by one or more digits.
IsNumber(s) ==
  LET body == IF s # <<>> /\ Head(s) = Minus THEN Tail(s) ELSE s
  IN  body # <<>> /\ \A i \in 1..Len(body) : IsDigit(body[i])

\* int(s), and float(s) of an integer numeral.
NumVal(s) ==
  IF Head(s) = Minus THEN -NatVal(Tail(s)) ELSE NatVal(s)

\* [line.split(',') for line in text.strip().split('\n')]
FrameData(text) ==
  LET lines == Split(Strip(text), Newline)
  IN  [i \in 1..Len(lines) |-> Split(lines[i], Comma)]

\* Lines 142-143 / 206-207: int(data[1]) and float(data[2]) of every line; an
\* IndexError or ValueError is ok = FALSE.
GraphRead(text) ==
  LET fd == FrameData(text)
      good == \A i \in 1..Len(fd) :
                Len(fd[i]) >= 3 /\ IsNumber(fd[i][2]) /\ IsNumber(fd[i][3])
  IN  IF good
      THEN [ok |-> TRUE,
            frame_numbers |-> [i \in 1..Len(fd) |-> NumVal(fd[i][2])],
            speeds |-> [i \in 1..Len(fd) |-> NumVal(fd[i][3])]]
      ELSE [ok |-> FALSE, frame_numbers |-> <<>>, speeds |-> <<>>]

\* Line 268: frame_start, frame_end, speed = map(float, line.split(',')) for
\* every line; then int(frame_start), int(frame_end), round(speed).
OverlayRead(text) ==
  LET fd == FrameData(text)
      good == \A i \in 1..Len(fd) :
                Len(fd[i]) = 3 /\ \A j \in 1..3 : IsNumber(fd[i][j])
  IN  IF good
      THEN [ok |-> TRUE,
            records |-> [i \in 1..Len(fd) |->
                           <<NumVal(fd[i][1]), NumVal(fd[i][2]), NumVal(fd[i][3])>>]]
      ELSE [ok |-> FALSE, records |-> <<>>]

\* Mutant of Expand: a frame already in the dict keeps its earlier speed.
ExpandKeepFirst(speed_data, rec) ==
  LET ks == rec[1]..rec[2]
  IN  [f \in (DOMAIN speed_data) \cup ks |->
         IF f \in DOMAIN speed_data THEN speed_data[f] ELSE rec[3]]

\* Lines 271-272 for one record: speed_data[frame] = round(speed) for every
\* frame of range(frame_start, frame_end + 1).
Expand(speed_data, rec) ==
  LET ks == rec[1]..rec[2]
  IN  [f \in (DOMAIN speed_data) \cup ks |->
         IF f \in ks THEN rec[3] ELSE speed_data[f]]

RECURSIVE ExpandAll(_, _)
ExpandAll(speed_data, recs) ==
  IF recs = <<>> THEN speed_data
  ELSE ExpandAll(Expand(speed_data, Head(recs)), Tail(recs))

EmptyDict == [f \in {} |-> 0]

\* parse_speed_data: the dict, or ok = FALSE when a line raises.
ParseSpeedData(text) ==
  IF ~text.present THEN [ok |-> TRUE, speed_data |-> EmptyDict]
  ELSE LET rd == OverlayRead(text.content)
       IN  IF rd.ok
           THEN [ok |-> TRUE, speed_data |-> ExpandAll(EmptyDict, rd.records)]
           ELSE [ok |-> FALSE, speed_data |-> EmptyDict]

(***************************************************************************)
(* The overlay callback and the host's handler dispatch.                   *)
(***************************************************************************)
\* speed_data.get(current_frame, 0)
Lookup(speed_data, frame) ==
  IF frame \in DOMAIN speed_data THEN speed_data[frame] ELSE DefaultSpeed

\* Line 288.
TextBody(text_before, speed, text_after) ==
  IF text_before # <<>> \/ text_after # <<>>
  THEN text_before \o IntStr(speed) \o text_after
  ELSE IntStr(speed)

\* update_text(scene) of one closure: the new SpeedText object.
UpdateText(closure, obj, frame, text_before, text_after) ==
  IF ~obj.present THEN obj
  ELSE [present |-> TRUE,
        body |-> TextBody(text_before, Lookup(closure.speed_data, frame), text_after),
        keyed |-> obj.keyed \cup {frame}]

\* The host calls every handler of frame_change_post, in list order.
RECURSIVE Dispatch(_, _, _, _, _)
Dispatch(handlers, obj, frame, text_before, text_after) ==
  IF handlers = <<>> THEN obj
  ELSE Dispatch(Tail(handlers),
                UpdateText(Head(handlers), obj, frame, text_before, text_after),
                frame, text_before, text_after)

\* scene.frame_set(frame) for each frame of a sequence, in order.
RECURSIVE FrameSetAll(_, _, _, _, _)
FrameSetAll(frames, handlers, obj, text_before, text_after) ==
  IF frames = <<>> THEN obj
  ELSE FrameSetAll(Tail(frames), handlers,
                   Dispatch(handlers, obj, Head(frames), text_before, text_after),
                   text_before, text_after)

(***************************************************************************)
(* Node graphs: nodes, animation data, actions, curves, keyframes.         *)
(***************************************************************************)
\* The host keeps node names unique within a tree: the k-th node named
\* "Speed Value" is stored under suffix k ("Speed Value", "Speed Value.001").
UniqueName(nodes, base) ==
  [base |-> base,
   suffix |-> Cardinality({i \in 1..Len(nodes) : nodes[i].base = base})]

\* keyframe_points.insert(frame, value): replaces the keyframe at that frame
\* or adds one, keeping the points ordered by frame; the new point has the
\* host's default interpolation.
Insert(points, frame, value) ==
  LET before == SelectSeq(points, LAMBDA p : p.frame < frame)
      after == SelectSeq(points, LAMBDA p : p.frame > frame)
  IN  before \o <<[frame |-> frame, value |-> value, interpolation |-> "BEZIER"]>>
        \o after

\* keyframe.interpolation = mode, for the keyframe insert returned.
SetInterpolation(points, frame, mode) ==
  [i \in 1..Len(points) |->
     IF points[i].frame = frame
     THEN [points[i] EXCEPT !.interpolation = mode] ELSE points[i]]

\* Lines 161-163 / 225-227: for frame, speed in zip(frame_numbers, speeds).
RECURSIVE InsertAll(_, _, _)
InsertAll(points, frame_numbers, speeds) ==
  IF frame_numbers = <<>> \/ speeds = <<>> THEN points
  ELSE InsertAll(SetInterpolation(Insert(points, Head(frame_numbers), Head(speeds)),
                                  Head(frame_numbers), "CONSTANT"),
                 Tail(frame_numbers), Tail(speeds))

\* Mutant of EnsureAction: a new action on every call.
EnsureActionAlwaysNew(animation_data, action_name) ==
  [present |-> TRUE, has_action |-> TRUE, name |-> action_name, fcurves |-> <<>>]

\* Lines 151-157 / 215-221: animation_data_create() when there is none, and a
\* new action when there is none.
EnsureAction(animation_data, action_name) ==
  IF animation_data.present /\ animation_data.has_action THEN animation_data
  ELSE [present |-> TRUE, has_action |-> TRUE, name |-> action_name,
        fcurves |-> <<>>]

\* action.fcurves.new(data_path=...) raises when the action already has a
\* curve with that data path.
HasCurve(animation_data, data_path) ==
  \E i \in 1..Len(animation_data.fcurves) :
     animation_data.fcurves[i].data_path = data_path

\* Lines 145-163 / 209-227 on one node tree: the node, the action, the curve
\* and its keyframes.  ok = FALSE when fcurves.new raises.
WriteGraph(nodes, animation_data, action_name, rd) ==
  LET value_node == UniqueName(nodes, "Speed Value")
      ad == EnsureAction(animation_data, action_name)
  IN  IF HasCurve(ad, value_node)
      THEN [ok |-> FALSE, nodes |-> Append(nodes, value_node), animation_data |-> ad]
      ELSE [ok |-> TRUE,
            nodes |-> Append(nodes, value_node),
            animation_data |->
              [ad EXCEPT !.fcurves =
                 Append(@, [data_path |-> value_node,
                            keyframe_points |->
                              InsertAll(<<>>, rd.frame_numbers, rd.speeds)])]]

(***************************************************************************)
(* Outcome of an operator execution: self.report and the returned status;  *)
(* an uncaught exception is status "EXCEPTION".                            *)
(***************************************************************************)
NoArgs == [start_frame |-> 0, end_frame |-> 0, use_interval |-> FALSE,
           interval |-> 0, apply_averaging |-> FALSE, averaging_window |-> 0]

Outcome(op, status, level) ==
  [op |-> op, status |-> status, level |-> level, args |-> NoArgs,
   measured |-> <<>>, speed_data |-> <<>>]

(***************************************************************************)
(* Initial state: an empty document.                                       *)
(***************************************************************************)
Init ==
  /\ texts = NoText
  /\ frame_current = 0
  /\ SpeedText = NoObject
  /\ frame_change_post = <<>>
  /\ material = [use_nodes |-> FALSE, nodes |-> <<>>, animation_data |-> NoAnimationData]
  /\ node_group = [nodes |-> <<>>, animation_data |-> NoAnimationData]
  /\ call = Outcome("none", "NONE", "NONE")

(***************************************************************************)
(* OBJECT_OT_GetSpeed.execute                                              *)
(***************************************************************************)
GetSpeed(has_object, start_frame, end_frame, use_interval, prop_interval, fps, apply_averaging, averaging_window, location, text_before, text_after) ==
  IF ~has_object
  THEN /\ call' = Outcome("get_speed", "CANCELLED", "ERROR")
       /\ UNCHANGED <<texts, frame_current, SpeedText, frame_change_post,
                      material, node_group>>
  ELSE LET interval == IF use_interval THEN prop_interval ELSE DefaultInterval
           frames == Range(start_frame, end_frame + 1, interval)
           measured == Measure(frames, location, interval, fps)
           speed_data == IF apply_averaging
                         THEN Averaged(measured, averaging_window)
                         ELSE measured
       IN  /\ texts' = [present |-> TRUE, content |-> WriteAll(speed_data)]
           /\ frame_current' = IF frames = <<>> THEN frame_current
                               ELSE frames[Len(frames)]
           /\ SpeedText' = FrameSetAll(frames, frame_change_post, SpeedText,
                                       text_before, text_after)
           /\ call' = [op |-> "get_speed", status |-> "FINISHED", level |-> "INFO",
                       args |-> [start_frame |-> start_frame,
                                 end_frame |-> end_frame,
                                 use_interval |-> use_interval,
                                 interval |-> prop_interval,
                                 apply_averaging |-> apply_averaging,
                                 averaging_window |-> averaging_window],
                       measured |-> measured,
                       speed_data |-> speed_data]
           /\ UNCHANGED <<frame_change_post, material, node_group>>

(***************************************************************************)
(* OBJECT_OT_TransferToShaderEditor.execute                                *)
(***************************************************************************)
TransferToShaderEditor(has_object, has_material) ==
  IF ~texts.present
  THEN /\ call' = Outcome("transfer_to_shader_editor", "CANCELLED", "ERROR")
       /\ UNCHANGED <<texts, frame_current, SpeedText, frame_change_post,
                      material, node_group>>
  ELSE IF ~has_object
  THEN \* obj.active_material on None raises AttributeError
       /\ call' = Outcome("transfer_to_shader_editor", "EXCEPTION", "ERROR")
       /\ UNCHANGED <<texts, frame_current, SpeedText, frame_change_post,
                      material, node_group>>
  ELSE IF ~has_material
  THEN /\ call' = Outcome("transfer_to_shader_editor", "CANCELLED", "ERROR")
       /\ UNCHANGED <<texts, frame_current, SpeedText, frame_change_post,
                      material, node_group>>
  ELSE LET rd == GraphRead(texts.content)
           wr == WriteGraph(material.nodes, material.animation_data,
                            "SpeedAction", rd)
       IN  /\ material' =
                IF rd.ok
                THEN [use_nodes |-> TRUE, nodes |-> wr.nodes,
                      animation_data |-> wr.animation_data]
                ELSE [material EXCEPT !.use_nodes = TRUE]
           /\ call' = IF rd.ok /\ wr.ok
                      THEN Outcome("transfer_to_shader_editor", "FINISHED", "INFO")
                      ELSE Outcome("transfer_to_shader_editor", "EXCEPTION", "ERROR")
           /\ UNCHANGED <<texts, frame_current, SpeedText, frame_change_post,
                          node_group>>

(***************************************************************************)
(* OBJECT_OT_TransferToGeoNodes.execute                                    *)
(***************************************************************************)
TransferToGeoNodes(has_object, has_modifier) ==
  IF ~texts.present
  THEN /\ call' = Outcome("transfer_to_geonodes", "CANCELLED", "ERROR")
       /\ UNCHANGED <<texts, frame_current, SpeedText, frame_change_post,
                      material, node_group>>
  ELSE IF ~has_object
  THEN \* obj.modifiers on None raises AttributeError
       /\ call' = Outcome("transfer_to_geonodes", "EXCEPTION", "ERROR")
       /\ UNCHANGED <<texts, frame_current, SpeedText, frame_change_post,
                      material, node_group>>
  ELSE IF ~has_modifier
  THEN /\ call' = Outcome("transfer_to_geonodes", "CANCELLED", "ERROR")
       /\ UNCHANGED <<texts, frame_current, SpeedText, frame_change_post,
                      material, node_group>>
  ELSE LET rd == GraphRead(texts.content)
           wr == WriteGraph(node_group.nodes, node_group.animation_data,
                            "GeoNodesSpeedAction", rd)
       IN  /\ node_group' =
                IF rd.ok
                THEN [nodes |-> wr.nodes, animation_data |-> wr.animation_data]
                ELSE node_group
           /\ call' = IF rd.ok /\ wr.ok
                      THEN Outcome("transfer_to_geonodes", "FINISHED", "INFO")
                      ELSE Outcome("transfer_to_geonodes", "EXCEPTION", "ERROR")
           /\ UNCHANGED <<texts, frame_current, SpeedText, frame_change_post,
                          material>>

(***************************************************************************)
(* OBJECT_OT_DisplaySpeed.execute                                          *)
(***************************************************************************)
\* Lines 247-261: the SpeedText object, created with body "0" when absent.
EnsureSpeedText(obj) ==
  IF obj.present THEN obj ELSE [present |-> TRUE, body |-> <<"0">>, keyed |-> {}]

\* Lines 292-293: clear the handler list, then append the new closure.
Register(handlers, update_text) == Append(<<>>, update_text)

DisplaySpeed ==
  LET parsed == ParseSpeedData(texts)
  IN  /\ SpeedText' = EnsureSpeedText(SpeedText)
      /\ frame_change_post' =
           IF parsed.ok
           THEN Register(frame_change_post, [speed_data |-> parsed.speed_data])
           ELSE frame_change_post
      /\ call' = IF parsed.ok
                 THEN Outcome("display_speed", "FINISHED", "INFO")
                 ELSE Outcome("display_speed", "EXCEPTION", "ERROR")
      /\ UNCHANGED <<texts, frame_current, material, node_group>>

(***************************************************************************)
(* The host changes the current frame (playback, scrubbing) and calls the  *)
(* frame_change_post handlers.                                             *)
(***************************************************************************)
FrameChange(frame, text_before, text_after) ==
  /\ frame_current' = frame
  /\ SpeedText' = Dispatch(frame_change_post, SpeedText, frame,
                           text_before, text_after)
  /\ UNCHANGED <<texts, frame_change_post, material, node_group, call>>

(***************************************************************************)
(* Inputs.                                                                 *)
(***************************************************************************)
Locations == {<<0, 0>>, <<1, 0>>, <<1, 1>>}
StartFrames == {0, 1}
Decorations == {<<>>, <<"k">>}

\* Three animations of the measured object over the short timeline: at rest,
\* constant velocity along x, accelerating along a curve.
SmallAnimations ==
  {[f \in 0..SmallFrame |-> <<0, 0>>],
   [f \in 0..SmallFrame |-> <<f, 0>>],
   [f \in 0..SmallFrame |-> <<f * f, f>>]}

\* (use_interval, interval) pairs: the interval field only matters when the
\* toggle is on.
Strides(max) ==
  {<<FALSE, DefaultInterval>>} \cup {<<TRUE, k>> : k \in 1..max}

\* (apply_averaging, averaging_window) pairs, likewise.
Smoothings(max) ==
  {<<FALSE, DefaultWindow>>} \cup {<<TRUE, w>> : w \in 1..max}

GetSpeedIn(objects, starts, ends, strides, smoothings, rates, animations, afters) ==
  \/ /\ FALSE \in objects
     /\ GetSpeed(FALSE, 0, 0, FALSE, DefaultInterval, 1, FALSE, DefaultWindow,
                 <<>>, <<>>, <<>>)
  \/ /\ TRUE \in objects
     /\ \E start_frame \in starts, end_frame \in ends, stride \in strides,
           smoothing \in smoothings, fps \in rates, location \in animations,
           text_after \in afters :
          GetSpeed(TRUE, start_frame, end_frame, stride[1], stride[2], fps,
                   smoothing[1], smoothing[2], location, <<>>, text_after)

\* The sampler as SpecOverlay runs it: stride 1 or 2, no smoothing.
GetSpeedOp ==
  GetSpeedIn(BOOLEAN, {0}, 0..SmallFrame, {<<FALSE, DefaultInterval>>, <<TRUE, 2>>},
             {<<FALSE, DefaultWindow>>}, {1}, SmallAnimations, Decorations)

\* The sampler as SpecGraph runs it: unit stride, no smoothing, a moving object.
GetSpeedGraphOp ==
  GetSpeedIn(BOOLEAN, {0}, 0..SmallFrame, {<<FALSE, DefaultInterval>>},
             {<<FALSE, DefaultWindow>>}, {1},
             {a \in SmallAnimations : a[1] # a[0]}, {<<>>})

\* The sampler as Spec runs it: the shortest timeline, at rest or moving.
GetSpeedTinyOp ==
  GetSpeedIn(BOOLEAN, {0}, 0..TinyFrame, {<<FALSE, DefaultInterval>>},
             {<<FALSE, DefaultWindow>>}, {1},
             {[f \in 0..TinyFrame |-> <<0, 0>>], [f \in 0..TinyFrame |-> <<f, 0>>]},
             {<<>>})

NodesCreated == Len(material.nodes) + Len(node_group.nodes)

TransferToShaderEditorOp ==
  /\ NodesCreated < MaxNodes
  /\ \E has_object \in BOOLEAN, has_material \in BOOLEAN :
       TransferToShaderEditor(has_object, has_material)

TransferToGeoNodesOp ==
  /\ NodesCreated < MaxNodes
  /\ \E has_object \in BOOLEAN, has_modifier \in BOOLEAN :
       TransferToGeoNodes(has_object, has_modifier)

DisplaySpeedOp == DisplaySpeed

FrameChangeOp ==
  \E frame \in 0..SmallFrame, text_after \in Decorations :
     FrameChange(frame, <<>>, text_after)

FrameChangeTinyOp ==
  \E frame \in 0..TinyFrame, text_after \in Decorations :
     FrameChange(frame, <<>>, text_after)

(***************************************************************************)
(* SpecOverlay: the sampler, the overlay updater and frame changes.        *)
(***************************************************************************)
NextOverlay ==
  \/ GetSpeedOp
  \/ DisplaySpeedOp
  \/ FrameChangeOp

SpecOverlay == Init /\ [][NextOverlay]_vars

(***************************************************************************)
(* SpecGraph: the sampler and the two graph writers.                       *)
(***************************************************************************)
NextGraph ==
  \/ GetSpeedGraphOp
  \/ TransferToShaderEditorOp
  \/ TransferToGeoNodesOp

SpecGraph == Init /\ [][NextGraph]_vars

(***************************************************************************)
(* SpecSampler: one run of the sampler from a document without or with the *)
(* text block, over every frame range, stride, rate, smoothing and         *)
(* animation of the bounds.                                                *)
(***************************************************************************)
InitSampler ==
  /\ texts \in {NoText, [present |-> TRUE, content |-> WriteAll(<<<<0, 1, 100>>>>)]}
  /\ frame_current = 0
  /\ SpeedText = NoObject
  /\ frame_change_post = <<>>
  /\ material = [use_nodes |-> FALSE, nodes |-> <<>>, animation_data |-> NoAnimationData]
  /\ node_group = [nodes |-> <<>>, animation_data |-> NoAnimationData]
  /\ call = Outcome("none", "NONE", "NONE")

NextSampler ==
  /\ call.op = "none"
  /\ GetSpeedIn(BOOLEAN, StartFrames, 0..MaxFrame, Strides(MaxInterval),
                Smoothings(MaxWindow), 1..MaxFps, [0..MaxFrame -> Locations],
                {<<>>})

SpecSampler == InitSampler /\ [][NextSampler]_vars

(***************************************************************************)
(* Spec: every operator and the host's frame changes, interleaved.         *)
(***************************************************************************)
Next ==
  \/ GetSpeedTinyOp
  \/ TransferToShaderEditorOp
  \/ TransferToGeoNodesOp
  \/ DisplaySpeedOp
  \/ FrameChangeTinyOp

Spec == Init /\ [][Next]_vars

(***************************************************************************)
(* Properties of one sampler run (SpecSampler).                            *)
(***************************************************************************)
SamplerRan == call.op = "get_speed" /\ call.status = "FINISHED"

\* The number of lines written to the text block.
LinesWritten == Cardinality({i \in 1..Len(texts.content) : texts.content[i] = Newline})

\* C1: a sampler run with an object selected over [start, end] with stride k
\* (k = interval when use_interval is set, else 1) emits exactly
\* max(0, floor((end - start) / k)) records: none when start = end, and none
\* for the first sampled frame.
C1_RecordCount ==
  SamplerRan =>
    LET k == IF call.args.use_interval THEN call.args.interval ELSE 1
        n == Max(0, (call.args.end_frame - call.args.start_frame) \div k)
    IN  /\ Len(call.speed_data) = n
        /\ LinesWritten = n
        /\ call.args.start_frame = call.args.end_frame => LinesWritten = 0
        /\ \A i \in 1..Len(call.speed_data) :
             call.speed_data[i][2] # call.args.start_frame

C1_Witness ==
  /\ SamplerRan
  /\ call.args.use_interval /\ call.args.interval = 2
  /\ call.args.start_frame = 0 /\ call.args.end_frame = 3
  /\ LinesWritten = 1

\* C2: in the series of one run every record has frameEnd = frameStart +
\* interval, the first record starts at the start frame, the records ascend
\* strictly by frameStart and each record ends where the next starts, with
\* smoothing on or off.
C2_Contiguous ==
  SamplerRan =>
    LET k == IF call.args.use_interval THEN call.args.interval ELSE 1
        recs == call.speed_data
    IN  /\ texts.content = WriteAll(recs)
        /\ \A i \in 1..Len(recs) : recs[i][2] = recs[i][1] + k
        /\ recs # <<>> => recs[1][1] = call.args.start_frame
        /\ \A i \in 1..(Len(recs) - 1) :
             recs[i][1] < recs[i + 1][1] /\ recs[i][2] = recs[i + 1][1]

C2_Witness ==
  /\ SamplerRan
  /\ call.args.apply_averaging
  /\ Len(call.speed_data) = 3
  /\ call.speed_data # call.measured

\* The windows the claim allows for record i (one-based) of n under width w:
\* w consecutive indices around i, as centred as the parity of w permits,
\* cut to 1..n.
ClaimedWindows(i, w, n) ==
  {<<Max(1, lo), Min(n, lo + w - 1)>> :
     lo \in {l \in (i - w + 1)..i : Abs((i - l) - (l + w - 1 - i)) <= 1}}

\* C3: with averaging on, for every window width W (odd or even) the smoothed
\* speed of record i is the rounded mean of the unsmoothed speeds of a window
\* centred on i that holds exactly W records unless the start or the end of
\* the series cuts it.
C3_CenteredWindow ==
  (SamplerRan /\ call.args.apply_averaging) =>
    \A i \in 1..Len(call.speed_data) :
      \E win \in ClaimedWindows(i, call.args.averaging_window, Len(call.measured)) :
        call.speed_data[i][3] =
          RoundDiv(SumSeq([j \in 1..(win[2] - win[1] + 1) |->
                             call.measured[win[1] + j - 1][3]]),
                   win[2] - win[1] + 1)

\* C4: every series the sampler writes, the empty one included, is read back
\* by the consumers' readers without failing and as the same triples in the
\* same order.
C4_RoundTrip ==
  SamplerRan =>
    /\ OverlayRead(texts.content).ok
    /\ OverlayRead(texts.content).records = call.speed_data
    /\ GraphRead(texts.content).ok
    /\ GraphRead(texts.content).frame_numbers =
         [i \in 1..Len(call.speed_data) |-> call.speed_data[i][2]]
    /\ GraphRead(texts.content).speeds =
         [i \in 1..Len(call.speed_data) |-> call.speed_data[i][3]]

\* C5: without a selected object, or over a frame range that yields no
\* samples (start = end, end < start), the sampler signals an error, writes no
\* record and leaves the text block and the current frame as they were.
C5_RejectsDegenerate ==
  [][(call'.op = "get_speed"
        /\ (call'.status = "CANCELLED"
              \/ call'.args.end_frame <= call'.args.start_frame))
       => /\ call'.level = "ERROR"
          /\ call'.status # "FINISHED"
          /\ texts' = texts
          /\ frame_current' = frame_current]_vars

(***************************************************************************)
(* Properties of the consumers.                                            *)
(***************************************************************************)
\* Every line of the text block is three numeric comma-separated fields.
WellFormed(text) ==
  LET lines == Split(Strip(text), Newline)
  IN  \A i \in 1..Len(lines) :
        LET fields == Split(lines[i], Comma)
        IN  Len(fields) = 3 /\ \A j \in 1..3 : IsNumber(fields[j])

\* No node, action, curve, keyframe or text object is created, no material
\* flag is changed, the handler list is as it was.
HostUnmodified ==
  /\ material' = material
  /\ node_group' = node_group
  /\ SpeedText'.present = SpeedText.present
  /\ frame_change_post' = frame_change_post

SeriesError == ~texts.present \/ ~WellFormed(texts.content)

\* C6: in the graph writers and the overlay updater a missing selection, a
\* missing text block and a malformed series each abort the operator with a
\* reported error and leave the host state unmodified.
C6_ErrorsLeaveHost ==
  [][/\ \A o \in BOOLEAN, m \in BOOLEAN :
          (TransferToShaderEditor(o, m) /\ (~o \/ ~m \/ SeriesError))
            => (call'.level = "ERROR" /\ HostUnmodified)
     /\ \A o \in BOOLEAN, m \in BOOLEAN :
          (TransferToGeoNodes(o, m) /\ (~o \/ ~m \/ SeriesError))
            => (call'.level = "ERROR" /\ HostUnmodified)
     /\ (DisplaySpeed /\ SeriesError)
            => (call'.level = "ERROR" /\ HostUnmodified)]_vars

\* C7: once the overlay updater has been invoked (the SpeedText object exists
\* from its first invocation on), exactly one callback is registered, the one
\* the most recent invocation created; no other step touches the handler list.
C7_OneCallback ==
  [][/\ SpeedText'.present => Len(frame_change_post') = 1
     /\ DisplaySpeed =>
          /\ call'.status = "FINISHED"
          /\ frame_change_post' = <<[speed_data |-> ParseSpeedData(texts).speed_data]>>
     /\ ~DisplaySpeed => frame_change_post' = frame_change_post]_vars

\* The speed of the last record, in file order, whose inclusive range holds f;
\* 0 when no record does.
LastRecordSpeed(recs, f) ==
  LET hits == {i \in 1..Len(recs) : recs[i][1] <= f /\ f <= recs[i][2]}
  IN  IF hits = {} THEN 0
      ELSE recs[CHOOSE i \in hits : \A j \in hits : j <= i][3]

\* The series a text block holds: its records in file order.
SeriesOf(text) == IF text.present THEN OverlayRead(text.content).records ELSE <<>>

GraphWritten(nodes, ad, nodes2, ad2, recs) ==
  /\ Len(nodes2) = Len(nodes) + 1
  /\ SubSeq(nodes2, 1, Len(nodes)) = nodes
  /\ ad2.present /\ ad2.has_action
  /\ (ad.present /\ ad.has_action) => ad2.name = ad.name
  /\ Len(ad2.fcurves) = Len(ad.fcurves) + 1
  /\ SubSeq(ad2.fcurves, 1, Len(ad.fcurves)) = ad.fcurves
  /\ LET curve == ad2.fcurves[Len(ad2.fcurves)]
     IN  /\ curve.data_path = nodes2[Len(nodes2)]
         /\ \A i \in 1..Len(ad.fcurves) : ad.fcurves[i].data_path # curve.data_path
         /\ curve.keyframe_points =
              [i \in 1..Len(recs) |->
                 [frame |-> recs[i][2], value |-> recs[i][3],
                  interpolation |-> "CONSTANT"]]
  /\ Len(ad2.fcurves) = Len(nodes2)

\* C9: a successful graph writer call creates one value node and one curve
\* with one constant-interpolation keyframe per record at the record's
\* frameEnd with the record's speed, creates the action only when the tree has
\* none and leaves the existing curves as they were, so that n successful
\* calls leave one action with n curves; any other step leaves the trees'
\* nodes and curves alone.
C9_GraphWriter ==
  [][/\ (TransferToShaderEditorOp /\ call'.status = "FINISHED") =>
          /\ GraphWritten(material.nodes, material.animation_data,
                          material'.nodes, material'.animation_data,
                          SeriesOf(texts))
          /\ node_group' = node_group
     /\ (TransferToGeoNodesOp /\ call'.status = "FINISHED") =>
          /\ GraphWritten(node_group.nodes, node_group.animation_data,
                          node_group'.nodes, node_group'.animation_data,
                          SeriesOf(texts))
          /\ material' = material
     /\ ~(TransferToShaderEditorOp /\ call'.status = "FINISHED") =>
          /\ material'.nodes = material.nodes
          /\ material'.animation_data = material.animation_data
     /\ ~(TransferToGeoNodesOp /\ call'.status = "FINISHED") =>
          node_group' = node_group]_vars

C9_Witness ==
  /\ call.op = "transfer_to_shader_editor" /\ call.status = "FINISHED"
  /\ Len(material.nodes) = 2
  /\ material.animation_data.has_action
  /\ Len(material.animation_data.fcurves) = 2
  /\ Len(material.animation_data.fcurves[1].keyframe_points) = 1
  /\ Len(material.animation_data.fcurves[2].keyframe_points) = 2

\* C10: the speeds the registered callback shows are those of the text block
\* as it was at the most recent overlay invocation: an invocation leaves
\* callbacks that show, for every frame, the speed derived from the text
\* block's records at that time, sampler runs do not change what they show,
\* and after a sampler run the text block holds that run's records only.
C10_Snapshot ==
  [][/\ DisplaySpeed =>
          \A i \in 1..Len(frame_change_post'), f \in 0..SmallFrame :
             Lookup(frame_change_post'[i].speed_data, f)
               = LastRecordSpeed(IF texts.present /\ WellFormed(texts.content)
                                 THEN SeriesOf(texts) ELSE <<>>, f)
     /\ GetSpeedOp => frame_change_post' = frame_change_post
     /\ (GetSpeedOp /\ call'.status = "FINISHED") =>
          /\ texts'.present
          /\ SeriesOf(texts') = call'.speed_data]_vars

====
